---- MODULE Spec2Model ----
(***************************************************************************)
(* Model of the offline-first expense screen (App component with sync     *)
(* state).  React state is modelled by the variables expenses, isOnline   *)
(* and isLoading; every handler invocation is a task that carries the     *)
(* values its closure captured when it was invoked (E = expenses,         *)
(* O = isOnline) and advances from one await to the next.                 *)
(***************************************************************************)
EXTENDS Integers, Sequences, FiniteSets, TLC

VARIABLES expenses, isOnline, isLoading, store, remote, nextSid, nextId,
          tasks, dialog, toast,
          \* the per-user Home screen: AsyncStorage by key, the navigation
          \* route with its params, Date.now(), and the user state
          keys, route, clock, user

vars == <<expenses, isOnline, isLoading, store, remote, nextSid, nextId,
          tasks, dialog, toast, keys, route, clock, user>>

\* the state only the per-user Home screen has
homeVars == <<keys, route, clock, user>>

(* ------------------------------ bounds -------------------------------- *)
\* number of temporary ids the clock/random source hands out
MaxAdds == 2
\* number of records the remote service accepts
MaxRemote == 2
\* number of handler invocations that can be in flight
NumSlots == 2
\* number of distinct values Date.now() takes on the Home screen
MaxClock == 2

Slots == 1..NumSlots

(* --------------------------- text and numbers ------------------------- *)
\* Text is a sequence of one-character strings.
WhiteSpace == {" ", "\t", "\n"}
Digits == {"0", "1", "2", "3", "4", "5", "6", "7", "8", "9"}

DigitVal(c) ==
    CASE c = "0" -> 0 [] c = "1" -> 1 [] c = "2" -> 2 [] c = "3" -> 3
      [] c = "4" -> 4 [] c = "5" -> 5 [] c = "6" -> 6 [] c = "7" -> 7
      [] c = "8" -> 8 [] c = "9" -> 9

RECURSIVE TrimStart(_)
TrimStart(s) ==
    IF s # <<>> /\ Head(s) \in WhiteSpace THEN TrimStart(Tail(s)) ELSE s

RECURSIVE TrimEnd(_)
TrimEnd(s) ==
    IF s # <<>> /\ s[Len(s)] \in WhiteSpace
    THEN TrimEnd(SubSeq(s, 1, Len(s) - 1)) ELSE s

\* String.prototype.trim
Trim(s) == TrimEnd(TrimStart(s))

\* Numbers are records: finite values are counted in hundredths.
NaN == [k |-> "nan", v |-> 0]
Infinity == [k |-> "inf", v |-> 1]
Fin(v) == [k |-> "fin", v |-> v]

InfinityText == <<"I", "n", "f", "i", "n", "i", "t", "y">>

IsPrefix(p, s) == Len(p) <= Len(s) /\ SubSeq(s, 1, Len(p)) = p

RECURSIVE DigitRun(_)
\* the longest prefix of s made of decimal digits
DigitRun(s) ==
    IF s # <<>> /\ Head(s) \in Digits THEN <<Head(s)>> \o DigitRun(Tail(s))
    ELSE <<>>

RECURSIVE IntVal(_)
IntVal(ds) ==
    IF ds = <<>> THEN 0
    ELSE 10 * IntVal(SubSeq(ds, 1, Len(ds) - 1)) + DigitVal(ds[Len(ds)])

\* value in hundredths of the fraction digits fs (digits after the second
\* are dropped: the inputs of the model carry at most two)
FracVal(fs) ==
    IF fs = <<>> THEN 0
    ELSE IF Len(fs) = 1 THEN 10 * DigitVal(fs[1])
    ELSE 10 * DigitVal(fs[1]) + DigitVal(fs[2])

\* parseFloat on an unsigned, left-trimmed text (no exponent part)
ParseUnsigned(s) ==
    IF IsPrefix(InfinityText, s) THEN Infinity
    ELSE LET ip == DigitRun(s)
             r1 == SubSeq(s, Len(ip) + 1, Len(s))
             fp == IF r1 # <<>> /\ Head(r1) = "." THEN DigitRun(Tail(r1))
                   ELSE <<>>
         IN  IF ip = <<>> /\ fp = <<>> THEN NaN
             ELSE Fin(100 * IntVal(ip) + FracVal(fp))

Negate(n) == IF n.k = "nan" THEN n ELSE [n EXCEPT !.v = -n.v]

\* parseFloat
parseFloat(s) ==
    LET t == TrimStart(s)
    IN  IF t = <<>> THEN NaN
        ELSE IF Head(t) = "-" THEN Negate(ParseUnsigned(Tail(t)))
        ELSE IF Head(t) = "+" THEN ParseUnsigned(Tail(t))
        ELSE ParseUnsigned(t)

isNaN(n) == n.k = "nan"
\* n <= 0 (false for NaN)
LeqZero(n) == n.k # "nan" /\ n.v <= 0

(* ------------------------------ records ------------------------------- *)
\* backendId of a record that has none (the field is undefined)
NoId == -1
\* temporary ids are kept apart from the ids the remote service assigns
TmpBase == 100
TmpId(n) == TmpBase + n

Today == "today"

Expense(id, title, amount, category, synced, backendId) ==
    [id |-> id, title |-> title, amount |-> amount, category |-> category,
     date |-> Today, synced |-> synced, backendId |-> backendId]

\* Array.prototype.filter / map on sequences
RECURSIVE FilterOut(_, _)
FilterOut(s, id) ==
    IF s = <<>> THEN <<>>
    ELSE IF Head(s).id # id THEN <<Head(s)>> \o FilterOut(Tail(s), id)
    ELSE FilterOut(Tail(s), id)

RECURSIVE Unsynced(_)
Unsynced(s) ==
    IF s = <<>> THEN <<>>
    ELSE IF ~Head(s).synced THEN <<Head(s)>> \o Unsynced(Tail(s))
    ELSE Unsynced(Tail(s))

MarkSynced(s, id, sid) ==
    [i \in 1..Len(s) |->
        IF s[i].id = id THEN [s[i] EXCEPT !.synced = TRUE, !.backendId = sid]
        ELSE s[i]]

\* mutant: the records keep the flag they arrive with (none)
AllSynced_Unmarked(list) ==
    [i \in 1..Len(list) |->
        Expense(list[i].id, list[i].title, list[i].amount, list[i].category,
                FALSE, NoId)]

\* json.expenseList.map(expense => ({...expense, synced: true}))
AllSynced(list) ==
    [i \in 1..Len(list) |->
        Expense(list[i].id, list[i].title, list[i].amount, list[i].category,
                TRUE, NoId)]

HasId(s, id) == \E i \in 1..Len(s) : s[i].id = id
\* Array.prototype.find: the first record with that id
Find(s, id) == s[CHOOSE i \in 1..Len(s) :
                    s[i].id = id /\ \A j \in 1..(i - 1) : s[j].id # id]

\* truthiness of a number or undefined (backendId || id)
Truthy(n) == n # NoId /\ n # 0

(* --------------------------- local storage ---------------------------- *)
\* AsyncStorage holds the JSON text of the list under STORAGE_KEY, or null
NoBlob == [present |-> FALSE, json |-> <<>>]

\* JSON has no text for a number that is not finite: it is written as null
Null == [k |-> "null", v |-> 0]
JSONnumber(n) == IF n.k = "fin" THEN n ELSE Null

\* mutant: the synced flag is not written
JSONstringify_DropsSynced(list) ==
    [present |-> TRUE,
     json |-> [i \in 1..Len(list) |->
                  [list[i] EXCEPT !.amount = JSONnumber(@),
                                  !.synced = FALSE]]]

\* JSON.stringify of a list of records (an undefined backendId is left out
\* and is undefined again after JSON.parse)
JSONstringify(list) ==
    [present |-> TRUE,
     json |-> [i \in 1..Len(list) |->
                  [list[i] EXCEPT !.amount = JSONnumber(@)]]]
JSONparse(blob) == blob.json

(* ------------------------------- toasts ------------------------------- *)
\* a toast shown to the user: <<type, title, textBody>>; the variable toast
\* holds the toasts the latest step has shown, in their order
ToastFillFields == <<"DANGER", "Error", "Please fill in all fields">>
ToastBadAmount ==
    <<"DANGER", "Error", "Please enter a valid amount greater than 0">>
ToastAdded == <<"SUCCESS", "Success", "Expense added successfully">>
ToastSaveServerError == <<"DANGER", "Server Error", "Failed to save to server">>
ToastSaveNetworkError ==
    <<"DANGER", "Network Error", "Could not connect to server">>
ToastSaveConnectionError ==
    <<"DANGER", "Connection Error", "Failed to connect to server">>
ToastSyncFailed ==
    <<"WARNING", "Sync Failed",
      "Could not sync with server. Data saved locally.">>
ToastLoadServerError ==
    <<"WARNING", "Server Error", "Failed to load expenses from server">>
ToastLoadNetworkError ==
    <<"DANGER", "Network Error", "Could not connect to server">>
ToastLoadConnectionError ==
    <<"DANGER", "Connection Error", "Failed to connect to server">>
ToastLoadingFailed ==
    <<"WARNING", "Loading Failed",
      "Could not load expenses. Using local data.">>
ToastDeleted == <<"SUCCESS", "Success", "Expense deleted successfully">>
ToastDeletePartial ==
    <<"WARNING", "Partial Success",
      "Deleted locally, but server delete failed">>
ToastDeleteNetworkError ==
    <<"WARNING", "Network Error",
      "Deleted locally, could not sync with server">>
ToastDeleteFailed ==
    <<"DANGER", "Delete Failed", "Could not delete expense">>
ToastSyncComplete ==
    <<"SUCCESS", "Sync Complete", "All expenses synced with server">>
ToastOffline ==
    <<"WARNING", "Offline", "No internet connection available">>

(* ------------------------------- inputs ------------------------------- *)
\* what the user can have typed into the title and amount fields when the
\* Add button is pressed: <<title, amount>>
FormInputs ==
    { << <<>>, <<"3", ".", "5", "0">> >>,
      << <<" ">>, <<"3", ".", "5", "0">> >>,
      << <<"T">>, <<>> >>,
      << <<"T">>, <<" ">> >>,
      << <<"T">>, <<"a">> >>,
      << <<"T">>, <<"0">> >>,
      << <<"T">>, <<"-", "5">> >>,
      << <<" ", "T", " ">>, <<"3", ".", "5", "0">> >> }
categories == {"Food"}

\* outcomes of one request to the remote service
FetchOutcomes == {"ok_true", "ok_false", "notok", "throw"}
\* outcomes of the probe's race: an ok response, an error response, a
\* network error, or the 5000 ms timeout rejecting first
ProbeOutcomes == {"ok", "notok", "throw", "timeout"}
\* outcomes of AsyncStorage.getItem followed by JSON.parse
ReadOutcomes == {"ok", "throw"}

(* ------------------------------- tasks -------------------------------- *)
NoReq == [create |-> 0, delete |-> 0, list |-> 0, probe |-> 0]

IdleTask ==
    [kind |-> "none", pc |-> "idle", E |-> <<>>, O |-> FALSE,
     batch |-> <<>>, i |-> 0, arg |-> <<>>, id |-> 0, del |-> 0,
     req |-> NoReq, writes |-> 0, refused |-> <<>>, logUser |-> 0]

NewTask(kind, E, O) == [IdleTask EXCEPT !.kind = kind, !.E = E, !.O = O]

\* a finished invocation leaves its slot
Done(task) == IdleTask

Free(t) == tasks[t].pc = "idle"
Quiet == \A t \in Slots : Free(t)
\* handler invocations take the lowest free slot
FirstFree(t) == Free(t) /\ \A u \in Slots : u < t => ~Free(u)

DialogClosed == [state |-> "closed", id |-> 0, E |-> <<>>, O |-> FALSE]

\* the remote service's copy of a pushed record
RemoteRec(e, sid) ==
    [id |-> sid, cid |-> e.id, title |-> e.title,
     amount |-> JSONnumber(e.amount), category |-> e.category]

RemoteRemove(r, id) == FilterOut(r, id)

(* --------------------------- initial state ---------------------------- *)
\* a record another session left on the remote service
SeedRemote ==
    <<[id |-> 1, cid |-> 0, title |-> <<"T">>, amount |-> Fin(350),
       category |-> "Food"]>>

\* the snapshot an earlier session left in the local store: the cached copy
\* of a remote record that has since been removed from the remote service
SeedStore == <<Expense(9, <<"T">>, Fin(350), "Food", TRUE, NoId)>>

\* this screen is the whole app: there is no navigation and no user
AppRoute == [name |-> "App", user |-> 0]
NoUser == 0

\* State after the first render and its effect: loadExpenses() and
\* checkNetworkStatus() have both been called and wait on their requests.
Init ==
    /\ expenses = <<>>
    /\ isOnline = TRUE
    /\ isLoading = TRUE
    /\ store \in {NoBlob, JSONstringify(SeedStore)}
    /\ remote \in {<<>>, SeedRemote}
    /\ nextSid = Len(remote) + 1
    /\ nextId = 0
    /\ tasks = [t \in Slots |->
                  IF t = 1
                  THEN [NewTask("load", <<>>, TRUE) EXCEPT
                            !.pc = "get", !.req.list = 1]
                  ELSE IF t = 2
                  THEN [NewTask("probe", <<>>, TRUE) EXCEPT
                            !.pc = "probe", !.req.probe = 1]
                  ELSE IdleTask]
    /\ dialog = DialogClosed
    /\ toast = <<>>
    /\ keys = <<>>
    /\ route = AppRoute
    /\ clock = 0
    /\ user = NoUser

(* ------------------------- shared continuations ----------------------- *)
\* fetch(".../SaveExpenses") for the i-th record of the batch
IssuePost(task, i) ==
    [task EXCEPT !.pc = "post", !.i = i, !.req.create = @ + 1]

\* fetch(".../LoadExpenses") of loadDataFromDatabase
IssueGet(task) == [task EXCEPT !.pc = "get", !.req.list = @ + 1]

\* mutant: the loop is left after its first record
NextPush_FirstOnly(task) == IssueGet(task)

\* the for loop of syncWithBackend after saveExpenseToBackend returned:
\* next record of the batch, or the reload that follows the loop
NextPush(task) ==
    IF task.i < Len(task.batch) THEN IssuePost(task, task.i + 1)
    ELSE IssueGet(task)

\* mutant: addExpense returns without its success toast
FinishToasts_Silent(kind) ==
    IF kind = "retry" THEN <<ToastSyncComplete>> ELSE <<>>

\* what the caller does once syncWithBackend / loadDataFromDatabase is over
FinishToasts(kind) ==
    IF kind = "add" THEN <<ToastAdded>>
    ELSE IF kind = "retry" THEN <<ToastSyncComplete>>
    ELSE <<>>

\* syncWithBackend(list), up to its first await
SyncStart(task, list) ==
    LET b == Unsynced(list)
    IN  IF b = <<>> THEN Done(task)
        ELSE IssuePost([task EXCEPT !.batch = b], 1)

\* mutant: the sync is attempted whatever the flag says
ShouldSync_Always(O) == TRUE

\* saveExpenses consults the isOnline of its closure after the local write
ShouldSync(O) == O

\* state changes every step of a task makes besides its own
Commit(t, nt, emitted) ==
    /\ tasks' = [tasks EXCEPT ![t] = nt]
    /\ toast' = emitted
    /\ UNCHANGED homeVars
    \* finally blocks: setIsLoading(false) and Dialog.hide()
    /\ isLoading' = IF nt.pc = "idle" /\ tasks[t].kind = "load" THEN FALSE
                    ELSE isLoading
    /\ dialog' = IF nt.pc = "idle" /\ tasks[t].kind = "delete"
                 THEN DialogClosed ELSE dialog

(* ------------------------------ addExpense ---------------------------- *)
\* mutant: the amount is only tested for NaN, so 0 and negatives pass
Validate_AcceptsNonPositive(title, amount) ==
    IF Trim(title) = <<>> \/ Trim(amount) = <<>> THEN <<ToastFillFields>>
    ELSE IF isNaN(parseFloat(amount)) THEN <<ToastBadAmount>>
    ELSE <<>>

\* the two validation returns of addExpense: the toast shown, or <<>>
Validate(title, amount) ==
    IF Trim(title) = <<>> \/ Trim(amount) = <<>> THEN <<ToastFillFields>>
    ELSE IF isNaN(parseFloat(amount)) \/ LeqZero(parseFloat(amount))
    THEN <<ToastBadAmount>>
    ELSE <<>>

\* [newExpense, ...expenses]
Prepend(new, E) == <<new>> \o E

\* mutant: when online the sync is started before the local write
saveExpenses_SyncFirst(task, newExpenses) ==
    IF task.O THEN SyncStart(task, newExpenses)
    ELSE [task EXCEPT !.pc = "setItem", !.arg = newExpenses]

\* saveExpenses(newExpenses) up to its first await: the local write is
\* issued before anything else
saveExpenses(task, newExpenses) ==
    [task EXCEPT !.pc = "setItem", !.arg = newExpenses]

\* addExpense up to its first await (AsyncStorage.setItem in saveExpenses)
addExpense(t, title, amount, category) ==
    /\ FirstFree(t)
    /\ ~isLoading
    /\ dialog.state = "closed"
    /\ UNCHANGED homeVars
    /\ IF Validate(title, amount) # <<>>
       THEN /\ toast' = Validate(title, amount)
            /\ UNCHANGED <<expenses, isOnline, isLoading, store, remote,
                           nextSid, nextId, tasks, dialog>>
       ELSE /\ nextId < MaxAdds
            /\ LET new == Expense(TmpId(nextId + 1), Trim(title),
                                  parseFloat(amount), category, FALSE, NoId)
                   updatedExpenses == Prepend(new, expenses)
               IN  /\ expenses' = updatedExpenses
                   /\ tasks' = [tasks EXCEPT ![t] =
                          saveExpenses(
                              [NewTask("add", expenses, isOnline) EXCEPT
                                  !.id = new.id],
                              updatedExpenses)]
            /\ nextId' = nextId + 1
            /\ toast' = <<>>
            /\ UNCHANGED <<isOnline, isLoading, store, remote, nextSid,
                           dialog>>

\* saveExpenses: the local write completes, then the sync if online
SetItemDone(t) ==
    /\ tasks[t].pc = "setItem"
    /\ store' = JSONstringify(tasks[t].arg)
    /\ LET task == [tasks[t] EXCEPT !.writes = @ + 1]
           nt == IF ShouldSync(task.O) THEN SyncStart(task, task.arg)
                 ELSE Done(task)
       IN  Commit(t, nt, IF nt.pc = "idle" THEN FinishToasts(task.kind)
                         ELSE <<>>)
    /\ UNCHANGED <<expenses, isOnline, remote, nextSid, nextId>>

(* ------------------------- saveExpenseToBackend ----------------------- *)
\* the list saveExpenseToBackend stores after a successful push: the
\* expenses of its closure with the pushed record marked
PushedList(E, id, sid) == MarkSynced(E, id, sid)

\* mutant: the network error is swallowed and the loop goes on
PushThrown_Continues(task) == NextPush(task)

\* saveExpenseToBackend rethrows a network error; the catch of
\* syncWithBackend ends the batch
PushThrown(task) == Done(task)

\* the response to the SaveExpenses request of record batch[i] arrives
PostDone(t, outcome) ==
    /\ tasks[t].pc = "post"
    /\ LET task == tasks[t]
           expense == task.batch[task.i]
       IN  CASE outcome = "ok_true" ->
                  /\ Len(remote) < MaxRemote
                  /\ remote' = Append(remote, RemoteRec(expense, nextSid))
                  /\ nextSid' = nextSid + 1
                  /\ expenses' = PushedList(task.E, expense.id, nextSid)
                  /\ Commit(t, [task EXCEPT !.pc = "postSetItem",
                                            !.arg = expenses'], <<>>)
                  /\ UNCHANGED <<isOnline, store, nextId>>
             [] outcome = "ok_false" ->
                  /\ Commit(t, NextPush([task EXCEPT !.refused =
                                            Append(@, expense.id)]),
                            <<ToastSaveServerError>>)
                  /\ UNCHANGED <<expenses, isOnline, store, remote, nextSid,
                                 nextId>>
             [] outcome = "notok" ->
                  /\ isOnline' = FALSE
                  /\ Commit(t, NextPush(task), <<ToastSaveNetworkError>>)
                  /\ UNCHANGED <<expenses, store, remote, nextSid, nextId>>
             [] outcome = "throw" ->
                  \* rethrown, caught by syncWithBackend, which returns
                  /\ isOnline' = FALSE
                  /\ Commit(t, PushThrown(task),
                            <<ToastSaveConnectionError, ToastSyncFailed>>
                               \o FinishToasts(task.kind))
                  /\ UNCHANGED <<expenses, store, remote, nextSid, nextId>>

\* the local write after a successful push completes
PostSetItemDone(t) ==
    /\ tasks[t].pc = "postSetItem"
    /\ store' = JSONstringify(tasks[t].arg)
    /\ Commit(t, NextPush([tasks[t] EXCEPT !.writes = @ + 1]), <<>>)
    /\ UNCHANGED <<expenses, isOnline, remote, nextSid, nextId>>

(* -------------------------- loadDataFromDatabase ---------------------- *)
\* loadDataFromDatabase returned normally to its caller
LoadReturned(task) == Done(task)

\* the response to the LoadExpenses request arrives
GetDone(t, outcome) ==
    /\ tasks[t].pc = "get"
    /\ LET task == tasks[t]
       IN  CASE outcome = "ok_true" ->
                  /\ expenses' = AllSynced(remote)
                  /\ Commit(t, [task EXCEPT !.pc = "getSetItem",
                                            !.arg = expenses'], <<>>)
                  /\ UNCHANGED <<isOnline, store, remote, nextSid, nextId>>
             [] outcome = "ok_false" ->
                  /\ Commit(t, LoadReturned(task),
                            <<ToastLoadServerError>>
                               \o FinishToasts(task.kind))
                  /\ UNCHANGED <<expenses, isOnline, store, remote, nextSid,
                                 nextId>>
             [] outcome = "notok" ->
                  /\ isOnline' = FALSE
                  /\ Commit(t, LoadReturned(task),
                            <<ToastLoadNetworkError>>
                               \o FinishToasts(task.kind))
                  /\ UNCHANGED <<expenses, store, remote, nextSid, nextId>>
             [] outcome = "throw" ->
                  \* rethrown to loadExpenses, syncWithBackend or the
                  \* delete handler
                  /\ isOnline' = FALSE
                  /\ IF task.kind = "load"
                     THEN Commit(t, [task EXCEPT !.pc = "getItem"],
                                 <<ToastLoadConnectionError,
                                   ToastLoadingFailed>>)
                     ELSE IF task.kind = "delete"
                     THEN Commit(t, Done(task),
                                 <<ToastLoadConnectionError,
                                   ToastDeleteFailed>>)
                     ELSE Commit(t, Done(task),
                                 <<ToastLoadConnectionError,
                                   ToastSyncFailed>>
                                    \o FinishToasts(task.kind))
                  /\ UNCHANGED <<expenses, store, remote, nextSid, nextId>>

\* the local write of the reloaded list completes
GetSetItemDone(t) ==
    /\ tasks[t].pc = "getSetItem"
    /\ store' = JSONstringify(tasks[t].arg)
    /\ LET task == [tasks[t] EXCEPT !.writes = @ + 1]
       IN  Commit(t, LoadReturned(task), FinishToasts(task.kind))
    /\ UNCHANGED <<expenses, isOnline, remote, nextSid, nextId>>

\* mutant: the fallback is applied only when nothing is in memory and the
\* snapshot is otherwise skipped
Fallback_SkipsRecords(blob, E, outcome) ==
    IF outcome = "ok" /\ blob.present /\ JSONparse(blob) # <<>>
    THEN Tail(JSONparse(blob)) ELSE E

\* const stored = await AsyncStorage.getItem(STORAGE_KEY);
\* if (stored) setExpenses(JSON.parse(stored)); a read that throws is caught
\* by the inner catch and leaves the collection as it is
Fallback(blob, E, outcome) ==
    IF outcome = "ok" /\ blob.present THEN JSONparse(blob) ELSE E

\* loadExpenses, catch branch: AsyncStorage.getItem completes or throws
GetItemDone(t, outcome) ==
    /\ tasks[t].pc = "getItem"
    /\ expenses' = Fallback(store, expenses, outcome)
    /\ Commit(t, Done(tasks[t]), <<>>)
    /\ UNCHANGED <<isOnline, store, remote, nextSid, nextId>>

(* ----------------------------- deleteExpense -------------------------- *)
\* deleteExpense(id): long press on a rendered record; the confirmation
\* dialog keeps the closure of the render it was opened from
deleteExpense(id) ==
    /\ dialog.state = "closed"
    /\ HasId(expenses, id)
    /\ dialog' = [state |-> "open", id |-> id, E |-> expenses,
                  O |-> isOnline]
    /\ toast' = <<>>
    /\ UNCHANGED <<expenses, isOnline, isLoading, store, remote, nextSid,
                   nextId, tasks>>
    /\ UNCHANGED homeVars

\* closeOnOverlayTap: the dialog is dismissed without pressing Delete
DismissDialog ==
    /\ dialog.state = "open"
    /\ dialog' = DialogClosed
    /\ toast' = <<>>
    /\ UNCHANGED <<expenses, isOnline, isLoading, store, remote, nextSid,
                   nextId, tasks>>
    /\ UNCHANGED homeVars

\* mutant: the record at the head of the list is dropped, whatever its id
RemoveById_DropsHead(E, id) == IF E = <<>> THEN E ELSE Tail(E)

\* expenses.filter(exp => exp.id !== id)
RemoveById(E, id) == FilterOut(E, id)

\* mutant: the synced flag of the record is not consulted
ShouldRemoteDelete_IgnoresSynced(O, E, id) == O

\* isOnline && expenseToDelete?.synced
ShouldRemoteDelete(O, E, id) == O /\ HasId(E, id) /\ Find(E, id).synced

\* mutant: the request is always keyed by the local id
DeleteId_AlwaysLocal(e, id) == id

\* expenseToDelete.backendId || id
DeleteId(e, id) == IF Truthy(e.backendId) THEN e.backendId ELSE id

\* onPressButton up to its first await
ConfirmDelete(t) ==
    /\ dialog.state = "open"
    /\ FirstFree(t)
    /\ LET id == dialog.id
           updatedExpenses == RemoveById(dialog.E, id)
           task == [NewTask("delete", dialog.E, dialog.O) EXCEPT !.id = id]
       IN  /\ expenses' = updatedExpenses
           /\ tasks' = [tasks EXCEPT ![t] =
                  IF ShouldRemoteDelete(dialog.O, dialog.E, id)
                  THEN [task EXCEPT !.pc = "delete",
                                    !.del = DeleteId(Find(dialog.E, id), id),
                                    !.req.delete = 1]
                  ELSE [task EXCEPT !.pc = "delSetItem",
                                    !.arg = updatedExpenses]]
    /\ dialog' = [dialog EXCEPT !.state = "busy"]
    /\ toast' = <<>>
    /\ UNCHANGED <<isOnline, isLoading, store, remote, nextSid, nextId>>
    /\ UNCHANGED homeVars

\* the response to the DeleteExpenses request arrives
DeleteDone(t, outcome) ==
    /\ tasks[t].pc = "delete"
    /\ LET task == tasks[t]
       IN  CASE outcome = "ok_true" ->
                  /\ remote' = RemoteRemove(remote, task.del)
                  /\ Commit(t, IssueGet(task), <<ToastDeleted>>)
             [] outcome = "ok_false" ->
                  /\ Commit(t, Done(task), <<ToastDeletePartial>>)
                  /\ UNCHANGED remote
             [] outcome = "notok" ->
                  /\ Commit(t, Done(task), <<ToastDeleteNetworkError>>)
                  /\ UNCHANGED remote
             [] outcome = "throw" ->
                  /\ Commit(t, Done(task), <<ToastDeleteFailed>>)
                  /\ UNCHANGED remote
    /\ UNCHANGED <<expenses, isOnline, store, nextSid, nextId>>

\* else branch: the local write of the reduced list completes
DelSetItemDone(t) ==
    /\ tasks[t].pc = "delSetItem"
    /\ store' = JSONstringify(tasks[t].arg)
    /\ Commit(t, Done([tasks[t] EXCEPT !.writes = @ + 1]), <<ToastDeleted>>)
    /\ UNCHANGED <<expenses, isOnline, remote, nextSid, nextId>>

(* ------------------------ retrySync and the probe --------------------- *)
\* mutant: the sync is started whatever the flag of the closure says
RetryAfterProbe_Always(task) == SyncStart(task, task.E)

\* retrySync after its optional probe: the isOnline tested is the closure's
RetryAfterProbe(task) ==
    IF task.O THEN SyncStart(task, task.E) ELSE Done(task)

RetryToasts(task, nt) ==
    IF nt.pc # "idle" THEN <<>>
    ELSE IF task.O THEN <<ToastSyncComplete>> ELSE <<ToastOffline>>

\* retrySync up to its first await; the button shows while unsyncedCount > 0
retrySync(t) ==
    /\ FirstFree(t)
    /\ dialog.state = "closed"
    /\ Unsynced(expenses) # <<>>
    /\ LET task == NewTask("retry", expenses, isOnline)
           nt == IF ~task.O
                 THEN [task EXCEPT !.pc = "probe", !.req.probe = 1]
                 ELSE RetryAfterProbe(task)
       IN  Commit(t, nt, RetryToasts(task, nt))
    /\ UNCHANGED <<expenses, isOnline, store, remote, nextSid, nextId>>

\* mutant: the rejection of the timeout promise is not taken for a failure
ProbeResult_IgnoresTimeout(outcome) == outcome \in {"ok", "timeout"}

\* mutant: every response, whatever its status code, counts as reachable
ProbeResult_AnyResponse(outcome) == outcome \in {"ok", "notok"}

\* mutant: the flag is set online once the probe is over, whatever came back
ProbeResult_Always(outcome) == TRUE

\* setIsOnline(response.ok), or setIsOnline(false) in the catch
ProbeResult(outcome) == outcome = "ok"

\* checkNetworkStatus: the race of the fetch and the timeout is decided
ProbeDone(t, outcome) ==
    /\ tasks[t].pc = "probe"
    /\ isOnline' = ProbeResult(outcome)
    /\ LET task == tasks[t]
           nt == IF task.kind = "retry" THEN RetryAfterProbe(task)
                 ELSE Done(task)
       IN  Commit(t, nt, IF task.kind = "retry" THEN RetryToasts(task, nt)
                         ELSE <<>>)
    /\ UNCHANGED <<expenses, store, remote, nextSid, nextId>>

(* --------------------------- specifications --------------------------- *)
\* the user acts on the screen once the earlier action has returned
PressAdd(t, title, amount, category) ==
    Quiet /\ addExpense(t, title, amount, category)
LongPress ==
    Quiet /\ \E i \in 1..Len(expenses) : deleteExpense(expenses[i].id)
TapOverlay == Quiet /\ DismissDialog
PressDelete(t) == Quiet /\ ConfirmDelete(t)
PressSync(t) == Quiet /\ retrySync(t)

Next ==
    \/ \E t \in Slots, f \in FormInputs, category \in categories :
          PressAdd(t, f[1], f[2], category)
    \/ LongPress
    \/ TapOverlay
    \/ \E t \in Slots : PressDelete(t)
    \/ \E t \in Slots : PressSync(t)
    \/ \E t \in Slots : SetItemDone(t)
    \/ \E t \in Slots, o \in FetchOutcomes : PostDone(t, o)
    \/ \E t \in Slots : PostSetItemDone(t)
    \/ \E t \in Slots, o \in FetchOutcomes : GetDone(t, o)
    \/ \E t \in Slots : GetSetItemDone(t)
    \/ \E t \in Slots, o \in ReadOutcomes : GetItemDone(t, o)
    \/ \E t \in Slots, o \in FetchOutcomes : DeleteDone(t, o)
    \/ \E t \in Slots : DelSetItemDone(t)
    \/ \E t \in Slots, o \in ProbeOutcomes : ProbeDone(t, o)

Spec == Init /\ [][Next]_vars

\* the same screen when the amount field can also hold text that parseFloat
\* reads as a number that is not finite
WideInputs ==
    FormInputs \cup { << <<"T">>, InfinityText >> }

NextWide ==
    \/ \E t \in Slots, f \in WideInputs, category \in categories :
          PressAdd(t, f[1], f[2], category)
    \/ Next

SpecWide == Init /\ [][NextWide]_vars

\* the screen when the user only adds records and presses the sync button
NextSync ==
    \/ \E t \in Slots, f \in FormInputs, category \in categories :
          PressAdd(t, f[1], f[2], category)
    \/ \E t \in Slots : PressSync(t)
    \/ \E t \in Slots : SetItemDone(t)
    \/ \E t \in Slots, o \in FetchOutcomes : PostDone(t, o)
    \/ \E t \in Slots : PostSetItemDone(t)
    \/ \E t \in Slots, o \in FetchOutcomes : GetDone(t, o)
    \/ \E t \in Slots : GetSetItemDone(t)
    \/ \E t \in Slots, o \in ReadOutcomes : GetItemDone(t, o)
    \/ \E t \in Slots, o \in ProbeOutcomes : ProbeDone(t, o)

SpecSync == Init /\ [][NextSync]_vars

\* the app is closed and started again: the component is mounted anew with
\* the initial values of its state, and its effect calls loadExpenses() and
\* checkNetworkStatus(); the local store and the remote service persist
Remount ==
    /\ Quiet
    /\ dialog.state = "closed"
    /\ expenses' = <<>>
    /\ isOnline' = TRUE
    /\ isLoading' = TRUE
    /\ tasks' = [t \in Slots |->
                   IF t = 1
                   THEN [NewTask("load", <<>>, TRUE) EXCEPT
                             !.pc = "get", !.req.list = 1]
                   ELSE IF t = 2
                   THEN [NewTask("probe", <<>>, TRUE) EXCEPT
                             !.pc = "probe", !.req.probe = 1]
                   ELSE IdleTask]
    /\ dialog' = DialogClosed
    /\ toast' = <<>>
    /\ UNCHANGED <<store, remote, nextSid, nextId>>
    /\ UNCHANGED homeVars

\* starts of the app one after the other, with no user action in between
NextInit ==
    \/ Remount
    \/ \E t \in Slots, o \in FetchOutcomes : GetDone(t, o)
    \/ \E t \in Slots : GetSetItemDone(t)
    \/ \E t \in Slots, o \in ReadOutcomes : GetItemDone(t, o)
    \/ \E t \in Slots, o \in ProbeOutcomes : ProbeDone(t, o)

SpecInit == Init /\ [][NextInit]_vars

\* the screen when the user does not wait for an add to return before
\* deleting a record: nothing in the component keeps the long press and the
\* dialog from being used while a handler waits on a request
LongPressAnyTime == \E i \in 1..Len(expenses) : deleteExpense(expenses[i].id)

NextOverlap ==
    \/ \E t \in Slots, f \in FormInputs, category \in categories :
          PressAdd(t, f[1], f[2], category)
    \/ LongPressAnyTime
    \/ DismissDialog
    \/ \E t \in Slots : ConfirmDelete(t)
    \/ \E t \in Slots : SetItemDone(t)
    \/ \E t \in Slots, o \in FetchOutcomes : PostDone(t, o)
    \/ \E t \in Slots : PostSetItemDone(t)
    \/ \E t \in Slots, o \in FetchOutcomes : GetDone(t, o)
    \/ \E t \in Slots : GetSetItemDone(t)
    \/ \E t \in Slots, o \in ReadOutcomes : GetItemDone(t, o)
    \/ \E t \in Slots, o \in FetchOutcomes : DeleteDone(t, o)
    \/ \E t \in Slots : DelSetItemDone(t)
    \/ \E t \in Slots, o \in ProbeOutcomes : ProbeDone(t, o)

SpecOverlap == Init /\ [][NextOverlap]_vars

(* ----------------- the per-user Home screen (part_002) ---------------- *)
\* The Home screen of the multi-user app keeps the same React state
\* (expenses) and uses the same task slots; its records have no sync
\* fields, its local store is one AsyncStorage key per user, and the
\* logged-in user is held under a key of its own.  The backend is seen
\* only through the way each request settles: nothing on this screen reads
\* a record back from it.

Users == {1, 2}

LoggedUserKey == <<"@loggedUser">>
ExpensesKey(userId) == <<"@expenses_", userId>>
KeyNames == {LoggedUserKey} \cup {ExpensesKey(u) : u \in Users}

HomeExpense(id, title, amount, category) ==
    [id |-> id, title |-> title, amount |-> amount, category |-> category,
     date |-> Today]

\* the first value Date.now() returns in a session
ClockStart == 10

\* what an earlier session of user u left under that user's key
SeedHome(u) == <<HomeExpense(u, <<"T">>, Fin(350), "Food")>>
LoggedBlob(u) == [present |-> TRUE, json |-> [id |-> u]]

HomeRoute(u) == [name |-> "Home", user |-> u]
LoginRoute == [name |-> "Login", user |-> 0]
HomeMounted == route.name = "Home"

HomeDialogClosed == [state |-> "closed", kind |-> "none", id |-> 0,
                     E |-> <<>>]

ToastHomeLoadFailed ==
    <<"ANDROID", "", "Something went wrong loading expenses">>
ToastHomeSaveFailed == <<"ANDROID", "", "Failed to save in local storage">>
ToastHomeSaved == <<"SUCCESS", "Success", "Added Expenses">>
ToastHomeMessage == <<"ANDROID", "", "result.message">>
ToastHomeWrong == <<"ANDROID", "", "Somthing went wrong">>
ToastHomeBadAmount == <<"DANGER", "Error", "Please enter a valid amount">>
ToastHomeAdded == <<"SUCCESS", "Success", "Expense added!">>
ToastHomeDeleted == <<"SUCCESS", "Success", "Expense deleted!">>
ToastLogoutFailed ==
    <<"DANGER", "Error", "Something went wrong during logout">>

\* State after Login has navigated to Home with params.user = u and the
\* mount effect has called loadExpenses(logUser.id) and started the read of
\* '@loggedUser'.
InitHome ==
    /\ expenses = <<>>
    /\ isOnline = TRUE
    /\ isLoading = FALSE
    /\ store = NoBlob
    /\ remote = <<>>
    /\ nextSid = 1
    /\ nextId = 0
    /\ \E u \in Users :
        /\ route = HomeRoute(u)
        /\ \E own \in {NoBlob, JSONstringify(SeedHome(u))} :
              keys = [k \in KeyNames |->
                        IF k = LoggedUserKey THEN LoggedBlob(u)
                        ELSE IF k = ExpensesKey(u) THEN own
                        ELSE JSONstringify(SeedHome(k[2]))]
        /\ tasks = [t \in Slots |->
                      IF t = 1
                      THEN [NewTask("hload", <<>>, FALSE) EXCEPT
                                !.pc = "getItem", !.logUser = u]
                      ELSE IF t = 2
                      THEN [NewTask("huser", <<>>, FALSE) EXCEPT
                                !.pc = "getUser", !.logUser = u]
                      ELSE IdleTask]
    /\ dialog = HomeDialogClosed
    /\ toast = <<>>
    /\ clock = ClockStart
    /\ user = NoUser

\* what the Home actions never touch
appVars == <<isOnline, isLoading, store, nextSid, nextId>>

\* setExpenses / setUser of an unmounted component change nothing
SetState(current, value) == IF HomeMounted THEN value ELSE current

\* The user starts one handler at a time; the two reads of the mount
\* effect may still be waiting when a handler starts.
HomeIdle ==
    \A t \in Slots : tasks[t].kind \notin {"hadd", "hdelete", "logout"}

\* loadExpenses(userId), when getItem settles
HomeLoadExpenses(t, outcome) ==
    /\ tasks[t].kind = "hload" /\ tasks[t].pc = "getItem"
    /\ outcome \in ReadOutcomes
    /\ LET saved == keys[ExpensesKey(tasks[t].logUser)]
       IN  IF outcome = "ok"
           THEN /\ expenses' = SetState(expenses,
                                   IF saved.present THEN JSONparse(saved)
                                   ELSE <<>>)
                /\ toast' = <<>>
           ELSE /\ expenses' = expenses
                /\ toast' = <<ToastHomeLoadFailed>>
    /\ tasks' = [tasks EXCEPT ![t] = IdleTask]
    /\ UNCHANGED <<keys, route, clock, user, remote, dialog>>
    /\ UNCHANGED appVars

\* the async function of the mount effect, when getItem('@loggedUser')
\* settles; a rejection is not caught
HomeLoadUser(t, outcome) ==
    /\ tasks[t].kind = "huser" /\ tasks[t].pc = "getUser"
    /\ outcome \in ReadOutcomes
    /\ LET stored == keys[LoggedUserKey]
       IN  user' = IF outcome = "ok" /\ stored.present
                   THEN SetState(user, JSONparse(stored).id)
                   ELSE user
    /\ tasks' = [tasks EXCEPT ![t] = IdleTask]
    /\ toast' = <<>>
    /\ UNCHANGED <<expenses, keys, route, clock, remote, dialog>>
    /\ UNCHANGED appVars

HomeValidate(title, amount) ==
    IF Trim(title) = <<>> \/ Trim(amount) = <<>> THEN <<ToastFillFields>>
    ELSE IF isNaN(parseFloat(amount)) \/ LeqZero(parseFloat(amount))
    THEN <<ToastHomeBadAmount>>
    ELSE <<>>

\* addExpense up to its first await
HomeAddExpense(t, title, amount, category) ==
    /\ HomeMounted /\ HomeIdle
    /\ FirstFree(t)
    /\ dialog.state = "closed"
    /\ IF HomeValidate(title, amount) # <<>>
       THEN /\ toast' = HomeValidate(title, amount)
            /\ UNCHANGED <<expenses, tasks>>
       ELSE /\ Len(expenses) < MaxAdds
            /\ LET newExpense == HomeExpense(clock, Trim(title),
                                             parseFloat(amount), category)
                   updatedExpenses == Prepend(newExpense, expenses)
               IN  /\ expenses' = updatedExpenses
                   /\ tasks' = [tasks EXCEPT ![t] =
                          [NewTask("hadd", expenses, FALSE) EXCEPT
                              !.pc = "setItem", !.arg = updatedExpenses,
                              !.batch = <<newExpense>>,
                              !.id = newExpense.id,
                              !.logUser = route.user]]
            /\ toast' = <<>>
    /\ UNCHANGED <<keys, route, clock, user, remote, dialog>>
    /\ UNCHANGED appVars

\* saveToStorage(logUser.id, list), when setItem settles; the caller then
\* sends its request
HomeSaveToStorage(t, outcome) ==
    /\ tasks[t].kind \in {"hadd", "hdelete"} /\ tasks[t].pc = "setItem"
    /\ outcome \in {"ok", "throw"}
    /\ IF outcome = "ok"
       THEN /\ keys' = [keys EXCEPT ![ExpensesKey(tasks[t].logUser)] =
                           JSONstringify(tasks[t].arg)]
            /\ toast' = <<>>
       ELSE /\ keys' = keys
            /\ toast' = <<ToastHomeSaveFailed>>
    /\ tasks' = [tasks EXCEPT ![t].pc =
                    IF tasks[t].kind = "hadd" THEN "post" ELSE "delete"]
    /\ UNCHANGED <<expenses, route, clock, user, remote, dialog>>
    /\ UNCHANGED appVars

HomePostOutcomes == {"ok_true", "ok_false", "throw"}

\* saveToDatabase(newExpense), when the request settles, and the rest of
\* addExpense
HomeSaveToDatabase(t, outcome) ==
    /\ tasks[t].kind = "hadd" /\ tasks[t].pc = "post"
    /\ outcome \in HomePostOutcomes
    /\ toast' = << CASE outcome = "ok_true" -> ToastHomeSaved
                     [] outcome = "ok_false" -> ToastHomeMessage
                     [] OTHER -> ToastHomeWrong,
                   ToastHomeAdded >>
    /\ tasks' = [tasks EXCEPT ![t] = IdleTask]
    /\ UNCHANGED <<expenses, keys, route, clock, user, dialog, remote>>
    /\ UNCHANGED appVars

\* deleteExpense(id): long press on a rendered record shows the dialog
HomeDeleteExpense(id) ==
    /\ HomeMounted /\ HomeIdle
    /\ dialog.state = "closed"
    /\ HasId(expenses, id)
    /\ dialog' = [state |-> "open", kind |-> "delete", id |-> id,
                  E |-> expenses]
    /\ toast' = <<>>
    /\ UNCHANGED <<expenses, keys, route, clock, user, remote, tasks>>
    /\ UNCHANGED appVars

\* closeOnOverlayTap
HomeDismissDialog ==
    /\ dialog.state = "open"
    /\ dialog' = HomeDialogClosed
    /\ toast' = <<>>
    /\ UNCHANGED <<expenses, keys, route, clock, user, remote, tasks>>
    /\ UNCHANGED appVars

\* onPressButton of the delete dialog up to its first await
HomeConfirmDelete(t) ==
    /\ dialog.state = "open" /\ dialog.kind = "delete"
    /\ FirstFree(t)
    /\ LET updatedExpenses == FilterOut(dialog.E, dialog.id)
       IN  /\ expenses' = SetState(expenses, updatedExpenses)
           /\ tasks' = [tasks EXCEPT ![t] =
                  [NewTask("hdelete", dialog.E, FALSE) EXCEPT
                      !.pc = "setItem", !.arg = updatedExpenses,
                      !.id = dialog.id, !.logUser = route.user]]
    /\ dialog' = [dialog EXCEPT !.state = "busy"]
    /\ toast' = <<>>
    /\ UNCHANGED <<keys, route, clock, user, remote>>
    /\ UNCHANGED appVars

HomeDeleteOutcomes == {"ok", "throw"}

\* the DELETE request settles; its response is not read
HomeDeleteRequest(t, outcome) ==
    /\ tasks[t].kind = "hdelete" /\ tasks[t].pc = "delete"
    /\ outcome \in HomeDeleteOutcomes
    /\ toast' = IF outcome = "throw"
                THEN <<ToastHomeWrong, ToastHomeDeleted>>
                ELSE <<ToastHomeDeleted>>
    /\ dialog' = HomeDialogClosed
    /\ tasks' = [tasks EXCEPT ![t] = IdleTask]
    /\ UNCHANGED <<expenses, keys, route, clock, user, remote>>
    /\ UNCHANGED appVars

\* Logout(): shows the dialog
HomeLogout ==
    /\ HomeMounted /\ HomeIdle
    /\ dialog.state = "closed"
    /\ dialog' = [state |-> "open", kind |-> "logout", id |-> 0,
                  E |-> <<>>]
    /\ toast' = <<>>
    /\ UNCHANGED <<expenses, keys, route, clock, user, remote, tasks>>
    /\ UNCHANGED appVars

\* onPressButton of the logout dialog up to its await
HomeConfirmLogout(t) ==
    /\ dialog.state = "open" /\ dialog.kind = "logout"
    /\ FirstFree(t)
    /\ tasks' = [tasks EXCEPT ![t] =
                    [NewTask("logout", <<>>, FALSE) EXCEPT
                        !.pc = "removeItem", !.logUser = route.user]]
    /\ dialog' = [dialog EXCEPT !.state = "busy"]
    /\ toast' = <<>>
    /\ UNCHANGED <<expenses, keys, route, clock, user, remote>>
    /\ UNCHANGED appVars

\* AsyncStorage.clear(), which Logout does not call
RemoveItem_Clear(K, key) == [k \in DOMAIN K |-> NoBlob]

\* AsyncStorage.removeItem(key)
RemoveItem(K, key) == [K EXCEPT ![key] = NoBlob]

\* removeItem('@loggedUser') settles: navigation.reset to Login unmounts
\* Home, and the dialog is hidden; a rejection leaves the dialog shown
HomeRemoveItem(t, outcome) ==
    /\ tasks[t].kind = "logout" /\ tasks[t].pc = "removeItem"
    /\ outcome \in {"ok", "throw"}
    /\ IF outcome = "ok"
       THEN /\ keys' = RemoveItem(keys, LoggedUserKey)
            /\ route' = LoginRoute
            /\ expenses' = <<>>
            /\ user' = NoUser
            /\ dialog' = HomeDialogClosed
            /\ toast' = <<>>
       ELSE /\ dialog' = [dialog EXCEPT !.state = "open"]
            /\ toast' = <<ToastLogoutFailed>>
            /\ UNCHANGED <<keys, route, expenses, user>>
    /\ tasks' = [tasks EXCEPT ![t] = IdleTask]
    /\ UNCHANGED <<clock, remote>>
    /\ UNCHANGED appVars

\* Date.now() moves on by a millisecond
Tick ==
    /\ clock + 1 < ClockStart + MaxClock
    /\ clock' = clock + 1
    /\ UNCHANGED <<expenses, keys, route, user, remote, tasks, dialog,
                   toast>>
    /\ UNCHANGED appVars

NextHome ==
    \/ \E t \in Slots, outcome \in ReadOutcomes : HomeLoadExpenses(t, outcome)
    \/ \E t \in Slots, outcome \in ReadOutcomes : HomeLoadUser(t, outcome)
    \/ \E t \in Slots, f \in FormInputs, category \in categories :
          HomeAddExpense(t, f[1], f[2], category)
    \/ \E t \in Slots, outcome \in {"ok", "throw"} :
          HomeSaveToStorage(t, outcome)
    \/ \E t \in Slots, outcome \in HomePostOutcomes :
          HomeSaveToDatabase(t, outcome)
    \/ \E id \in ClockStart..(ClockStart + MaxClock) \cup Users :
          HomeDeleteExpense(id)
    \/ HomeDismissDialog
    \/ \E t \in Slots : HomeConfirmDelete(t)
    \/ \E t \in Slots, outcome \in HomeDeleteOutcomes :
          HomeDeleteRequest(t, outcome)
    \/ HomeLogout
    \/ \E t \in Slots : HomeConfirmLogout(t)
    \/ \E t \in Slots, outcome \in {"ok", "throw"} : HomeRemoveItem(t, outcome)
    \/ Tick

SpecHome == InitHome /\ [][NextHome]_vars

(* ------------- the Login and Registration screens (part_003) ---------- *)
\* Here isLoading is the flag of each of the two screen components, keyed by
\* the screen name; a task's O says whether the component instance that
\* started it is still mounted (a state update of an unmounted component
\* changes nothing).

AuthScreens == {"Login", "Registration"}
NotLoading == [s \in AuthScreens |-> FALSE]

\* /^[^\s@]+@[^\s@]+\.[^\s@]+$/.test(s)
EmailRegexTest(s) ==
    \E i \in 1..Len(s), j \in 1..Len(s) :
        /\ 1 < i /\ i + 1 < j /\ j < Len(s)
        /\ s[i] = "@"
        /\ s[j] = "."
        /\ \A k \in (1..Len(s)) \ {i} : s[k] \notin WhiteSpace \cup {"@"}

EmailGood == <<"a", "@", "b", ".", "c">>

\* what the user has typed into the email and password fields
LoginInputs ==
    { << <<>>, <<"p">> >>,
      << <<" ">>, <<"p">> >>,
      << EmailGood, <<>> >>,
      << EmailGood, <<" ">> >>,
      << <<"a", "@", "b">>, <<"p">> >>,
      << <<" ">> \o EmailGood, <<"p">> >>,
      << <<"a", "@", "b", "@", "c", ".", "d">>, <<"p">> >>,
      << EmailGood, <<"p">> >> }

\* full name, email, password, confirmPassword
RegistrationInputs ==
    { << <<>>, EmailGood, <<"p">>, <<"p">> >>,
      << <<"A", "l">>, <<>>, <<"p">>, <<"p">> >>,
      << <<"A", "l">>, EmailGood, <<" ">>, <<" ">> >>,
      << <<"A", "l">>, EmailGood, <<"p">>, <<>> >>,
      << <<"A">>, EmailGood, <<"p">>, <<"p">> >>,
      << <<" ", "A", " ">>, EmailGood, <<"p">>, <<"p">> >>,
      << <<"A", "l">>, <<"a", "@", "b", ".">>, <<"p">>, <<"p">> >>,
      << <<"A", "l">>, <<"a", " ", "@", "b", ".", "c">>, <<"p">>, <<"p">> >>,
      << <<"A", "l">>, <<"@", "b", ".", "c">>, <<"p">>, <<"p">> >>,
      << <<"A", "l">>, EmailGood, <<"p">>, <<"q">> >>,
      << <<"A", "l">>, EmailGood, <<"p">>, <<"p", " ">> >>,
      << <<" ", "A", "l">>, <<"a", "@", "b", ".", "c", ".", "d">>,
         <<"p">>, <<"p">> >> }

ToastValidEmail == <<"DANGER", "Error", "Please enter a valid email">>
ToastLoginStatus == <<"DANGER", "Login Failed", "Somthing went wrong">>
ToastLoginNotOk == <<"DANGER", "Login Failed", "Invalid email or password">>
ToastConnection ==
    <<"DANGER", "Connection Error", "Could not connect to server">>
ToastValidName == <<"DANGER", "Error", "Please enter a valid full name">>
ToastValidEmailAddress ==
    <<"DANGER", "Error", "Please enter a valid email address">>
ToastNoMatch == <<"DANGER", "Error", "Passwords do not match">>
ToastRegistered == <<"SUCCESS", "Success", "Account created successfully!">>
ToastRegisterStatus == <<"DANGER", "Registration Failed", "result.message">>
ToastRegisterNotOk ==
    <<"DANGER", "Registration Failed", "Something went wrong">>

\* State after the app has started on the Login screen with nobody logged
\* in; both users have stored collections from earlier sessions.
InitAuth ==
    /\ expenses = <<>>
    /\ isOnline = TRUE
    /\ isLoading = NotLoading
    /\ store = NoBlob
    /\ remote = <<>>
    /\ nextSid = 1
    /\ nextId = 0
    /\ tasks = [t \in Slots |-> IdleTask]
    /\ dialog = DialogClosed
    /\ toast = <<>>
    /\ keys = [k \in KeyNames |->
                 IF k = LoggedUserKey THEN NoBlob
                 ELSE JSONstringify(SeedHome(k[2]))]
    /\ route = LoginRoute
    /\ clock = ClockStart
    /\ user = NoUser

\* what the Login and Registration actions never touch
restVars == <<expenses, isOnline, store, remote, nextSid, nextId, dialog,
              clock, user>>

\* the tasks once the component instances of the given screens are gone
Unmount(T, screens) ==
    [t \in Slots |->
        IF T[t].kind \in screens THEN [T[t] EXCEPT !.O = FALSE] ELSE T[t]]

\* setIsLoading(value) called by a task of the given screen
SetIsLoading(L, task, value) ==
    IF task.O THEN [L EXCEPT ![task.kind] = value] ELSE L

\* the two validation returns of handleLogin: the toast shown, or <<>>
LoginValidate(email, password) ==
    IF Trim(email) = <<>> \/ Trim(password) = <<>> THEN <<ToastFillFields>>
    ELSE IF ~EmailRegexTest(email) THEN <<ToastValidEmail>>
    ELSE <<>>

\* handleLogin up to its await of the request; the Sign In button is
\* disabled while isLoading
handleLogin(t, email, password) ==
    /\ route.name = "Login"
    /\ ~isLoading["Login"]
    /\ FirstFree(t)
    /\ IF LoginValidate(email, password) # <<>>
       THEN /\ toast' = LoginValidate(email, password)
            /\ UNCHANGED <<isLoading, tasks>>
       ELSE /\ isLoading' = [isLoading EXCEPT !["Login"] = TRUE]
            /\ tasks' = [tasks EXCEPT ![t] =
                            [NewTask("Login", <<>>, TRUE) EXCEPT
                                !.pc = "request"]]
            /\ toast' = <<>>
    /\ UNCHANGED <<keys, route>>
    /\ UNCHANGED restVars

AuthOutcomes == {"ok_true", "ok_false", "notok", "throw"}

\* mutant: the status of the answer is not consulted
LoginAccepted_IgnoresStatus(outcome) == outcome \in {"ok_true", "ok_false"}

\* response.ok and result.status
LoginAccepted(outcome) == outcome = "ok_true"

\* the Login request settles; u is the id of result.logUser
LoginResponse(t, outcome, u) ==
    /\ tasks[t].kind = "Login" /\ tasks[t].pc = "request"
    /\ outcome \in AuthOutcomes
    /\ IF LoginAccepted(outcome)
       THEN /\ tasks' = [tasks EXCEPT ![t].pc = "setItem", ![t].logUser = u]
            /\ toast' = <<>>
            /\ UNCHANGED isLoading
       ELSE /\ tasks' = [tasks EXCEPT ![t] = IdleTask]
            /\ toast' = << CASE outcome = "ok_false" -> ToastLoginStatus
                             [] outcome = "notok" -> ToastLoginNotOk
                             [] OTHER -> ToastConnection >>
            /\ isLoading' = SetIsLoading(isLoading, tasks[t], FALSE)
    /\ UNCHANGED <<keys, route>>
    /\ UNCHANGED restVars

\* setItem('@loggedUser') settles: navigation.reset to Home replaces the
\* stack, so both screens are unmounted; a rejection goes to the catch
LoginSetItem(t, outcome) ==
    /\ tasks[t].kind = "Login" /\ tasks[t].pc = "setItem"
    /\ outcome \in {"ok", "throw"}
    /\ IF outcome = "ok"
       THEN /\ keys' = [keys EXCEPT ![LoggedUserKey] =
                           LoggedBlob(tasks[t].logUser)]
            /\ route' = HomeRoute(tasks[t].logUser)
            /\ isLoading' = NotLoading
            /\ tasks' = Unmount([tasks EXCEPT ![t] = IdleTask], AuthScreens)
            /\ toast' = <<>>
       ELSE /\ toast' = <<ToastConnection>>
            /\ isLoading' = SetIsLoading(isLoading, tasks[t], FALSE)
            /\ tasks' = [tasks EXCEPT ![t] = IdleTask]
            /\ UNCHANGED <<keys, route>>
    /\ UNCHANGED restVars

\* navigateToRegistration: a new Registration screen is put on the stack
navigateToRegistration ==
    /\ route.name = "Login"
    /\ route' = [route EXCEPT !.name = "Registration"]
    /\ toast' = <<>>
    /\ UNCHANGED <<isLoading, tasks, keys>>
    /\ UNCHANGED restVars

\* navigation.navigate('Login') from Registration: the Registration screen
\* leaves the stack
LeaveRegistration ==
    /\ route' = [route EXCEPT !.name = "Login"]
    /\ isLoading' = [isLoading EXCEPT !["Registration"] = FALSE]

navigateToLogin ==
    /\ route.name = "Registration"
    /\ LeaveRegistration
    /\ tasks' = Unmount(tasks, {"Registration"})
    /\ toast' = <<>>
    /\ UNCHANGED keys
    /\ UNCHANGED restVars

\* mutant: the length of the name is not tested
validateForm_AnyName(fullName, email, password, confirmPassword) ==
    IF \/ Trim(fullName) = <<>> \/ Trim(email) = <<>>
       \/ Trim(password) = <<>> \/ Trim(confirmPassword) = <<>>
    THEN <<ToastFillFields>>
    ELSE IF ~EmailRegexTest(email) THEN <<ToastValidEmailAddress>>
    ELSE IF password # confirmPassword THEN <<ToastNoMatch>>
    ELSE <<>>

\* validateForm: the toast of the first test that fails, or <<>>
validateForm(fullName, email, password, confirmPassword) ==
    IF \/ Trim(fullName) = <<>> \/ Trim(email) = <<>>
       \/ Trim(password) = <<>> \/ Trim(confirmPassword) = <<>>
    THEN <<ToastFillFields>>
    ELSE IF Len(Trim(fullName)) < 2 THEN <<ToastValidName>>
    ELSE IF ~EmailRegexTest(email) THEN <<ToastValidEmailAddress>>
    ELSE IF password # confirmPassword THEN <<ToastNoMatch>>
    ELSE <<>>

\* handleRegistration up to its await of the request; the Sign Up button is
\* disabled while isLoading
handleRegistration(t, fullName, email, password, confirmPassword) ==
    /\ route.name = "Registration"
    /\ ~isLoading["Registration"]
    /\ FirstFree(t)
    /\ LET failed == validateForm(fullName, email, password, confirmPassword)
       IN  IF failed # <<>>
           THEN /\ toast' = failed
                /\ UNCHANGED <<isLoading, tasks>>
           ELSE /\ isLoading' = [isLoading EXCEPT !["Registration"] = TRUE]
                /\ tasks' = [tasks EXCEPT ![t] =
                                [NewTask("Registration", <<>>, TRUE) EXCEPT
                                    !.pc = "request"]]
                /\ toast' = <<>>
    /\ UNCHANGED <<keys, route>>
    /\ UNCHANGED restVars

\* the Register request settles; after a success the timer of 1500 ms is
\* started, and the finally block clears the flag in every case
RegisterResponse(t, outcome) ==
    /\ tasks[t].kind = "Registration" /\ tasks[t].pc = "request"
    /\ outcome \in AuthOutcomes
    /\ tasks' = [tasks EXCEPT ![t] =
                    IF outcome = "ok_true" THEN [@ EXCEPT !.pc = "timer"]
                    ELSE IdleTask]
    /\ toast' = << CASE outcome = "ok_true" -> ToastRegistered
                     [] outcome = "ok_false" -> ToastRegisterStatus
                     [] outcome = "notok" -> ToastRegisterNotOk
                     [] OTHER -> ToastConnection >>
    /\ isLoading' = SetIsLoading(isLoading, tasks[t], FALSE)
    /\ UNCHANGED <<keys, route>>
    /\ UNCHANGED restVars

\* the timer fires: navigation.navigate('Login')
RegisterTimer(t) ==
    /\ tasks[t].kind = "Registration" /\ tasks[t].pc = "timer"
    /\ LeaveRegistration
    /\ tasks' = Unmount([tasks EXCEPT ![t] = IdleTask], {"Registration"})
    /\ toast' = <<>>
    /\ UNCHANGED keys
    /\ UNCHANGED restVars

NextAuth ==
    \/ \E t \in Slots, f \in LoginInputs : handleLogin(t, f[1], f[2])
    \/ \E t \in Slots, o \in AuthOutcomes, u \in Users : LoginResponse(t, o, u)
    \/ \E t \in Slots, o \in {"ok", "throw"} : LoginSetItem(t, o)
    \/ navigateToRegistration
    \/ navigateToLogin
    \/ \E t \in Slots, f \in RegistrationInputs :
          handleRegistration(t, f[1], f[2], f[3], f[4])
    \/ \E t \in Slots, o \in AuthOutcomes : RegisterResponse(t, o)
    \/ \E t \in Slots : RegisterTimer(t)

SpecAuth == InitAuth /\ [][NextAuth]_vars

(* ------------------------------ properties ---------------------------- *)
\* the step in which the invocation of the given kind in slot t returns
Completes(t, kind) ==
    tasks[t].kind = kind /\ tasks[t].pc # "idle" /\ tasks'[t].pc = "idle"

\* the step in which an invocation of the given kind starts in slot t
Starts(t, kind) == tasks[t].pc = "idle" /\ tasks'[t].kind = kind

ValidationToasts == { <<ToastFillFields>>, <<ToastBadAmount>> }

\* an input the contract of addRecord rejects
RejectedInput(title, amount) ==
    \/ Trim(title) = <<>>
    \/ amount = <<>>
    \/ parseFloat(amount).k = "nan"
    \/ parseFloat(amount).v <= 0

RejectedInputs == {f \in FormInputs : RejectedInput(f[1], f[2])}

\* C1: addExpense with a title that is empty after trimming, or an amount
\* text that is empty, non-numeric or not greater than 0, shows a validation
\* error and changes neither the collection, the local store nor the
\* connectivity flag, and starts no invocation that could issue a request.
C1_InvalidAddRejected ==
    [][\/ /\ toast' \in ValidationToasts
          /\ expenses' = expenses
          /\ store' = store
          /\ isOnline' = isOnline
          /\ remote' = remote
          /\ tasks' = tasks
       \/ ~\E t \in Slots, p \in RejectedInputs, category \in categories :
              addExpense(t, p[1], p[2], category)]_vars

\* a rejected add in a state with records in memory and in the store
C1_Witness ==
    /\ toast = <<ToastBadAmount>>
    /\ Quiet
    /\ expenses # <<>>
    /\ store.present /\ JSONparse(store) # <<>>

IdSeq(s) == [i \in 1..Len(s) |-> s[i].id]

\* C2: when a valid addExpense returns, the collection is the new record
\* followed by the records that were there when it was called.
C2_AddPrependsOne ==
    [][\A t \in Slots :
          Completes(t, "add")
          => /\ Len(expenses') = Len(tasks[t].E) + 1
             /\ IdSeq(expenses') = <<tasks[t].id>> \o IdSeq(tasks[t].E)]_vars

\* C3: in a valid addExpense the write of the full collection, new record
\* first, is issued whether the flag is online or offline, and it has
\* completed before the first SaveExpenses request of that call is issued.
C3_LocalWriteBeforePush ==
    [][\A t \in Slots :
          /\ Starts(t, "add")
             => /\ tasks'[t].pc = "setItem"
                /\ tasks'[t].req = NoReq
                /\ tasks'[t].arg = expenses'
                /\ IdSeq(expenses') = <<tasks'[t].id>> \o IdSeq(expenses)
          /\ (tasks[t].kind = "add" /\ tasks[t].req.create = 0
                /\ tasks'[t].kind = "add" /\ tasks'[t].req.create > 0)
             => /\ tasks'[t].writes >= 1
                /\ store' = JSONstringify(tasks[t].arg)
                /\ HasId(JSONparse(store'), tasks[t].id)]_vars

\* the first request of an add is in flight and the store holds the new
\* record in front of an older one
C3_Witness ==
    \E t \in Slots :
        /\ tasks[t].kind = "add" /\ tasks[t].pc = "post"
        /\ tasks[t].req.create = 1
        /\ Len(JSONparse(store)) >= 2
        /\ JSONparse(store)[1].id = tasks[t].id

\* C4: a valid addExpense called while the flag is offline issues no
\* request, and when it returns the new record is first in the collection
\* and in the local store, with synced = false.
C4_OfflineAddLocalOnly ==
    [][\A t \in Slots :
          (tasks[t].kind = "add" /\ ~tasks[t].O)
          => /\ tasks[t].req = NoReq
             /\ tasks'[t].req = NoReq
             /\ tasks'[t].pc \in {"setItem", "idle"}
             /\ Completes(t, "add")
                => /\ expenses'[1].id = tasks[t].id
                   /\ ~expenses'[1].synced
                   /\ JSONparse(store') = expenses'
                   /\ remote' = remote]_vars

\* an offline add has returned: its record is unsynced in memory and in the
\* store, and the remote service never received anything
C4_Witness ==
    /\ Quiet
    /\ ~isOnline
    /\ toast = <<ToastAdded>>
    /\ expenses # <<>>
    /\ ~expenses[1].synced /\ expenses[1].id >= TmpBase
    /\ store = JSONstringify(expenses)
    /\ nextSid = 1

\* the remote service holds a copy of the record with temporary id id
Pushed(r, id) == \E j \in 1..Len(r) : r[j].cid = id
SidOf(r, id) == (CHOOSE j \in 1..Len(r) : r[j].cid = id)

\* C5: when an online addExpense whose new record the remote service
\* accepted with id s returns, the collection holds the new record with
\* synced = true and that remote id.
C5_OnlineAddMarksSynced ==
    [][\A t \in Slots :
          (Completes(t, "add") /\ tasks[t].O /\ Pushed(remote', tasks[t].id))
          => \E i \in 1..Len(expenses') :
                /\ expenses'[i].synced
                /\ LET s == remote'[SidOf(remote', tasks[t].id)].id
                   IN  \/ /\ expenses'[i].id = tasks[t].id
                          /\ expenses'[i].backendId = s
                       \/ expenses'[i].id = s]_vars

\* the ways a SaveExpenses request can fail
PushFailures == {"ok_false", "notok", "throw"}

\* the records of the batch after the one whose request is in flight
Following(task) ==
    {task.batch[j].id : j \in (task.i + 1)..Len(task.batch)}

StillUnsynced(s, ids) ==
    \A id \in ids : \E i \in 1..Len(s) : s[i].id = id /\ ~s[i].synced

C7_AddAlwaysReportsSuccess ==
    [][\A t \in Slots :
          Completes(t, "add")
          => /\ toast' # <<>>
             /\ toast'[Len(toast')] = ToastAdded]_vars

\* an add has returned with success after its push raised a network error
C7_Witness ==
    /\ Quiet
    /\ toast = <<ToastSaveConnectionError, ToastSyncFailed, ToastAdded>>
    /\ expenses # <<>>

\* C8: when a confirmed delete returns, the local store holds no record
\* with the deleted id.
C8_DeleteAlwaysPersisted ==
    [][\A t \in Slots :
          Completes(t, "delete")
          => ~HasId(JSONparse(store'), tasks[t].id)]_vars

\* the delete in slot t is local only: its record is unsynced or the flag
\* was offline
LocalOnly(task) ==
    ~task.O \/ ~Find(task.E, task.id).synced

\* C9: a delete of an unsynced record, or with the flag offline, issues no
\* request; when it returns the record is gone from the collection and
\* from the local store, and the remote service is as it was.
C9_LocalOnlyDelete ==
    [][\A t \in Slots :
          /\ (Starts(t, "delete") /\ LocalOnly(tasks'[t]))
             => /\ tasks'[t].pc = "delSetItem"
                /\ tasks'[t].req = NoReq
                /\ ~HasId(expenses', tasks'[t].id)
          /\ (tasks[t].kind = "delete" /\ LocalOnly(tasks[t]))
             => /\ tasks'[t].req = NoReq
                /\ remote' = remote
                /\ Completes(t, "delete")
                   => /\ ~HasId(expenses', tasks[t].id)
                      /\ ~HasId(JSONparse(store'), tasks[t].id)]_vars

\* a synced record was deleted while offline: it is gone locally and the
\* remote service still has it
C9_Witness ==
    /\ Quiet
    /\ ~isOnline
    /\ toast = <<ToastDeleted>>
    /\ remote = SeedRemote
    /\ ~HasId(expenses, SeedRemote[1].id)
    /\ store.present /\ ~HasId(JSONparse(store), SeedRemote[1].id)

\* C10: a delete of a synced record with the flag online issues exactly one
\* DeleteExpenses request, for the record's backendId if it has one and
\* for its id otherwise.
C10_RemoteDeleteKey ==
    [][\A t \in Slots :
          /\ (Starts(t, "delete") /\ ~LocalOnly(tasks'[t]))
             => /\ tasks'[t].pc = "delete"
                /\ tasks'[t].req.delete = 1
                /\ LET e == Find(tasks'[t].E, tasks'[t].id)
                   IN  tasks'[t].del = IF e.backendId # NoId
                                       THEN e.backendId ELSE e.id
          /\ (tasks[t].kind = "delete" /\ ~LocalOnly(tasks[t])
                /\ tasks'[t].kind = "delete")
             => /\ tasks'[t].req.delete = 1
                /\ tasks'[t].del = tasks[t].del]_vars

\* the request of a delete is in flight for the backendId of a record that
\* has one
C10_Witness ==
    \E t \in Slots :
        /\ tasks[t].kind = "delete" /\ tasks[t].pc = "delete"
        /\ Find(tasks[t].E, tasks[t].id).backendId # NoId
        /\ tasks[t].del = Find(tasks[t].E, tasks[t].id).backendId
        /\ tasks[t].del # tasks[t].id

\* the ways a DeleteExpenses request can fail
DeleteFailures == {"ok_false", "notok", "throw"}

\* C11: when the DeleteExpenses request of a synced record fails (status =
\* false, non-ok response or network error), the record stays out of the
\* collection, the handler returns, and the one toast it shows is a warning.
C11_RemoteDeleteFailureWarns ==
    [][\A t \in Slots, o \in DeleteFailures :
          DeleteDone(t, o)
          => /\ ~HasId(expenses', tasks[t].id)
             /\ tasks'[t].pc = "idle"
             /\ Len(toast') = 1
             /\ toast'[1][1] = "WARNING"]_vars

\* ids a delete could be asked for: remote ids, the cached id, temporary ids
AnyIds == {0, 1, 2, 9, TmpId(1), TmpId(2)}

\* s without its k-th element
WithoutIndex(s, k) ==
    [j \in 1..(Len(s) - 1) |-> IF j < k THEN s[j] ELSE s[j + 1]]

C13_ReloadReplacesAndPersists ==
    [][\A t \in Slots :
          /\ GetDone(t, "ok_true")
             => /\ Len(expenses') = Len(remote)
                /\ \A i \in 1..Len(remote) :
                      /\ expenses'[i].id = remote[i].id
                      /\ expenses'[i].title = remote[i].title
                      /\ expenses'[i].amount = remote[i].amount
                      /\ expenses'[i].category = remote[i].category
                      /\ expenses'[i].synced
                /\ tasks'[t].pc = "getSetItem"
                /\ tasks'[t].arg = expenses'
          /\ GetSetItemDone(t)
             => /\ store'.present
                /\ store'.json = tasks[t].arg
                /\ store'.json = expenses']_vars

\* the reload that follows the push of an add has put the remote list in
\* memory and in the store
C13_Witness ==
    /\ Quiet
    /\ remote # <<>>
    /\ Len(expenses) = Len(remote)
    /\ \A i \in 1..Len(remote) :
          expenses[i].id = remote[i].id /\ expenses[i].synced
    /\ store = JSONstringify(expenses)
    /\ nextId > 0

\* the ways a LoadExpenses request can fail
LoadFailures == {"ok_false", "notok", "throw"}

\* C14: when the LoadExpenses request of loadExpenses fails in any way
\* (status = false, non-ok response, network error), the local snapshot is
\* read and becomes the collection; a read that throws leaves the collection
\* empty and the call returns.
C14_LoadFailureFallsBack ==
    [][\A t \in Slots :
          /\ \A o \in LoadFailures :
                (tasks[t].kind = "load" /\ GetDone(t, o))
                => tasks'[t].pc = "getItem"
          /\ (GetItemDone(t, "ok") /\ store.present)
             => expenses' = store.json /\ tasks'[t].pc = "idle"
          /\ GetItemDone(t, "throw")
             => expenses' = <<>> /\ tasks'[t].pc = "idle"]_vars

\* C15: the LoadExpenses request of loadExpenses is in flight only after the
\* probe of the mount has returned and has reported online.
C15_ProbeBeforeList ==
    \A t \in Slots :
        (tasks[t].kind = "load" /\ tasks[t].req.list > 0)
        => /\ \A u \in Slots : tasks[u].kind # "probe"
           /\ isOnline

\* C16: when loadExpenses returns, the collection is the remote list (the
\* request succeeded), or the local snapshot (the request threw and the
\* snapshot was read), or empty; it is never a part or a mix of the two.
C16_LoadFromOneSource ==
    [][\A t \in Slots :
          Completes(t, "load")
          => IF tasks[t].pc = "getSetItem"
             THEN /\ IdSeq(expenses') = IdSeq(remote')
                  /\ \A i \in 1..Len(expenses') : expenses'[i].synced
             ELSE IF GetItemDone(t, "ok") /\ store.present
             THEN expenses' = store.json
             ELSE expenses' = <<>>]_vars

\* loadExpenses has returned with the cached record although the remote
\* service holds a different one
C16_Witness ==
    /\ Quiet
    /\ nextId = 0
    /\ remote = SeedRemote
    /\ store = JSONstringify(SeedStore)
    /\ expenses = SeedStore
    /\ ~isOnline

\* C17: every retrySync issues the probe request, and when that probe gets
\* an ok response the same call goes on to issue a SaveExpenses request for
\* the unsynced records of the collection.
C17_RetryProbesThenSyncs ==
    [][\A t \in Slots :
          /\ Starts(t, "retry") => tasks'[t].req.probe = 1
          /\ (tasks[t].kind = "retry" /\ ProbeDone(t, "ok"))
             => /\ tasks'[t].pc = "post"
                /\ tasks'[t].batch = Unsynced(expenses)]_vars

\* probe outcomes after which the flag is offline
ProbeFailures == {"notok", "throw", "timeout"}

\* C18: a retrySync whose probe does not find the remote service shows the
\* offline toast and returns; it has issued no SaveExpenses, DeleteExpenses
\* or list request, and the collection, the local store and the remote
\* service are as they were.
C18_RetryOfflineChangesNothing ==
    [][\A t \in Slots, o \in ProbeFailures :
          (tasks[t].kind = "retry" /\ ProbeDone(t, o))
          => /\ toast' = <<ToastOffline>>
             /\ tasks'[t].pc = "idle"
             /\ tasks[t].req.create = 0
             /\ tasks[t].req.delete = 0
             /\ tasks[t].req.list = 0
             /\ ~isOnline'
             /\ expenses' = expenses
             /\ store' = store
             /\ remote' = remote]_vars

\* a retrySync has returned with the offline toast and the unsynced records
\* are still there
C18_Witness ==
    /\ Quiet
    /\ toast = <<ToastOffline>>
    /\ ~isOnline
    /\ Unsynced(expenses) # <<>>
    /\ store = JSONstringify(expenses)

\* C19: when the probe request throws a network error, or the timeout
\* rejects before a response, checkNetworkStatus sets the flag offline and
\* returns normally: its caller goes on and no error toast is shown.
C19_ProbeFailureSetsOffline ==
    [][\A t \in Slots, o \in {"throw", "timeout"} :
          ProbeDone(t, o)
          => /\ ~isOnline'
             /\ tasks'[t].pc = "idle"
             /\ toast' = IF tasks[t].kind = "retry" THEN <<ToastOffline>>
                         ELSE <<>>]_vars

\* the probe of the mount has returned with the flag offline while the
\* LoadExpenses request of loadExpenses is still in flight
C19_Witness ==
    /\ ~isOnline
    /\ \A u \in Slots : tasks[u].kind # "probe"
    /\ \E t \in Slots : tasks[t].kind = "load" /\ tasks[t].pc = "get"

\* C20 as stated: a probe that receives any response, ok or not, leaves the
\* flag online.
C20_AnyResponseOnline ==
    [][\A t \in Slots, o \in {"ok", "notok"} :
          ProbeDone(t, o) => isOnline']_vars

\* C20 amended: a probe that receives a response sets the flag to the ok
\* property of that response: online for an ok status, offline for an error
\* status.
C20_ResponseOkDecides ==
    [][\A t \in Slots :
          /\ ProbeDone(t, "ok") => isOnline'
          /\ ProbeDone(t, "notok") => ~isOnline']_vars

\* the flag is online again after loadExpenses had set it offline and fallen
\* back to the snapshot: the probe got an ok response afterwards
C20_Witness ==
    /\ Quiet
    /\ isOnline
    /\ nextId = 0
    /\ remote = SeedRemote
    /\ expenses = SeedStore

\* the record with that id is in the list with synced = false
HeldUnsynced(s, id) == \E i \in 1..Len(s) : s[i].id = id /\ ~s[i].synced

\* C23: a SaveExpenses, DeleteExpenses or LoadExpenses request answered
\* status = false shows a toast and leaves the collection and the local
\* store as they were before the request; when the call that had a create
\* refused returns, the refused record is in the collection and in the
\* store with synced = false.
C23_RefusalKeepsLocalState ==
    [][\A t \in Slots :
          /\ (PostDone(t, "ok_false") \/ GetDone(t, "ok_false")
                 \/ DeleteDone(t, "ok_false"))
             => /\ toast' # <<>>
                /\ expenses' = expenses
                /\ store' = store
          /\ (tasks[t].pc # "idle" /\ tasks'[t].pc = "idle")
             => \A j \in 1..Len(tasks[t].refused) :
                   /\ HeldUnsynced(expenses', tasks[t].refused[j])
                   /\ HeldUnsynced(store'.json, tasks[t].refused[j])]_vars

\* the list a store holds, nothing written counting as the empty list
Snapshot(blob) == IF blob.present THEN blob.json ELSE <<>>

\* C24: whenever no handler is in flight the collection is the list most
\* recently written to the local store.
C24_MemoryMatchesStore ==
    Quiet => expenses = Snapshot(store)

\* C29: no SaveExpenses request is in flight for a record of which the
\* remote service already holds a copy.
C29_NoSecondCreate ==
    \A t \in Slots :
        tasks[t].pc = "post"
        => ~Pushed(remote, tasks[t].batch[tasks[t].i].id)

\* the record with that id is in memory and in the store, or a copy of it is
\* on the remote service
Kept(E, blob, r, id) ==
    \/ HasId(E, id) /\ HasId(Snapshot(blob), id)
    \/ Pushed(r, id)

\* C30: when an addExpense or a retrySync returns, the record just added
\* and every record the collection held when the call started are in the
\* collection and the local store, or on the remote service.
C30_NoAddedRecordLost ==
    [][\A t \in Slots :
          (tasks[t].kind \in {"add", "retry"} /\ tasks[t].pc # "idle"
              /\ tasks'[t].pc = "idle")
          => /\ tasks[t].kind = "add"
                => Kept(expenses', store', remote', tasks[t].id)
             /\ \A i \in 1..Len(tasks[t].E) :
                   tasks[t].E[i].id >= TmpBase
                   => Kept(expenses', store', remote', tasks[t].E[i].id)]_vars

\* C28: every record addExpense has put into the collection has a title
\* that is not empty and carries no outer white space, and an amount that
\* is a finite number greater than 0.
C28_AddedRecordsValid ==
    \A i \in 1..Len(expenses) :
        expenses[i].id >= TmpBase
        => /\ expenses[i].title # <<>>
           /\ Trim(expenses[i].title) = expenses[i].title
           /\ expenses[i].amount.k = "fin"
           /\ expenses[i].amount.v > 0

\* C25: when the store holds the list L an earlier loadExpenses got from the
\* remote service, a loadExpenses whose request throws ends with the
\* collection equal to L, record for record, every record synced, and with
\* the store as it was.
C25_OfflineRestartKeepsList ==
    [][\A t \in Slots :
          /\ (tasks[t].kind = "load" /\ tasks[t].pc # "getSetItem")
             => store' = store
          /\ (GetItemDone(t, "ok") /\ store = JSONstringify(AllSynced(remote)))
             => /\ expenses' = AllSynced(remote)
                /\ \A i \in 1..Len(expenses') : expenses'[i].synced
                /\ tasks'[t].pc = "idle"]_vars

\* a later start whose request threw has returned with the list an earlier
\* start cached, while its probe is still in flight
C25_Witness ==
    /\ remote = SeedRemote
    /\ expenses = AllSynced(remote)
    /\ store = JSONstringify(expenses)
    /\ ~isOnline
    /\ \A t \in Slots : tasks[t].kind # "load"
    /\ \E t \in Slots : tasks[t].pc = "probe"

\* C26: when a retrySync has pushed every unsynced record with success and
\* its reload has succeeded, no record of the collection is unsynced and the
\* remote service holds a copy of every record that was ever added (the user
\* deletes nothing).
C26_RetryReachesAllSynced ==
    [][\A t \in Slots :
          (tasks[t].kind = "retry" /\ GetSetItemDone(t)
              /\ tasks[t].refused = <<>> /\ isOnline)
          => /\ Unsynced(expenses') = <<>>
             /\ \A n \in 1..nextId : Pushed(remote', TmpId(n))]_vars


\* C22: in every reachable state no two records of the in-memory collection
\* have the same id, also after two adds made at the same clock value.
C22_IdsUnique ==
    \A i, j \in 1..Len(expenses) :
        i # j => expenses[i].id # expenses[j].id

\* C27: on the per-user screen a step changes a stored key only if it is
\* the setItem of a handler of user u writing u's own collection, or the
\* removeItem of logout removing the logged-in-user key; loading reads u's
\* own key, and logout leaves every stored collection as it was.
C27_OnlyOwnKey ==
    [][ /\ \A k \in KeyNames :
              keys'[k] # keys[k] =>
                 \E t \in Slots :
                    \/ /\ tasks[t].pc = "setItem"
                       /\ tasks[t].logUser = route.user
                       /\ k = ExpensesKey(route.user)
                       /\ keys'[k] = JSONstringify(tasks[t].arg)
                    \/ /\ tasks[t].pc = "removeItem"
                       /\ k = LoggedUserKey
                       /\ keys'[k] = NoBlob
        /\ \A t \in Slots :
              /\ HomeLoadExpenses(t, "ok") /\ HomeMounted =>
                    expenses' = Snapshot(keys[ExpensesKey(route.user)])
              /\ HomeRemoveItem(t, "ok") =>
                    /\ keys'[LoggedUserKey] = NoBlob
                    /\ \A u \in Users :
                          keys'[ExpensesKey(u)] = keys[ExpensesKey(u)] ]_vars

\* user u has added a record and logged out: u's collection holds the new
\* record, the other user's collection is as it was, the logged-in-user key
\* is gone
C27_Witness ==
    /\ route = LoginRoute
    /\ keys[LoggedUserKey] = NoBlob
    /\ \E u \in Users :
          /\ HasId(Snapshot(keys[ExpensesKey(u)]), ClockStart)
          /\ \A v \in Users \ {u} :
                keys[ExpensesKey(v)] = JSONstringify(SeedHome(v))


HeldSynced(s, id) ==
    \E i \in 1..Len(s) : s[i].id = id /\ s[i].synced /\ s[i].backendId # NoId

Ids(s) == {s[i].id : i \in 1..Len(s)}

\* C31: in a batch of several unsynced records, the update after a
\* successful push marks the pushed record synced with its remote id in the
\* collection and, once written, in the local store; the records pushed
\* earlier in the batch stay marked, and the collection holds the same
\* records as before the update.
C31_PushMarksAndKeeps ==
    [][\A t \in Slots :
          LET task == tasks[t]
              earlier == {task.batch[j].id : j \in 1..(task.i - 1)}
                            \ Ids([j \in 1..Len(task.refused) |->
                                      [id |-> task.refused[j]]])
          IN  /\ (PostDone(t, "ok_true") /\ Len(task.batch) > 1) =>
                    /\ HeldSynced(expenses', task.batch[task.i].id)
                    /\ Ids(expenses') = Ids(expenses)
                    /\ \A id \in earlier :
                          Pushed(remote, id) => HeldSynced(expenses', id)
              /\ (PostSetItemDone(t) /\ Len(task.batch) > 1) =>
                    /\ HeldSynced(store'.json, task.batch[task.i].id)
                    /\ \A id \in earlier :
                          Pushed(remote, id) => HeldSynced(store'.json, id)
       ]_vars

\* C32: the create requests of a batch are issued one at a time and in the
\* order of the collection: the batch is the unsynced records of the list
\* in list order, the first request is issued when the local write is over,
\* and the request for record i+1 is issued in the very step that ends the
\* handling of the response for record i; no other step issues a create.
C32_PushesSequential ==
    [][\A t \in Slots :
          LET task == tasks[t]
              nt == tasks'[t]
          IN  /\ (nt.pc # "idle" /\ nt.req.create # task.req.create) =>
                    /\ nt.req.create = task.req.create + 1
                    /\ nt.pc = "post"
                    /\ \/ /\ task.pc \in {"setItem", "idle", "probe"}
                          /\ nt.i = 1
                          /\ nt.batch = Unsynced(IF task.pc = "setItem"
                                                 THEN task.arg ELSE nt.E)
                       \/ /\ \/ task.pc = "postSetItem"
                             \/ task.pc = "post" /\ expenses' = expenses
                          /\ nt.i = task.i + 1
                          /\ nt.batch = task.batch
              /\ (task.pc = "post" /\ nt.pc = "post") =>
                    nt.req.create = task.req.create + 1
              /\ (task.pc = "postSetItem" /\ nt # task) =>
                    IF task.i < Len(task.batch)
                    THEN nt.pc = "post" /\ nt.i = task.i + 1
                    ELSE nt.pc = "get"
              /\ (task.pc = "post" /\ PostDone(t, "ok_true")) =>
                    nt.pc = "postSetItem" /\ nt.i = task.i
       ]_vars

\* the second create request of a two-record batch is in flight
C32_Witness ==
    \E t \in Slots :
        /\ tasks[t].pc = "post"
        /\ tasks[t].i = 2
        /\ Len(tasks[t].batch) = 2
        /\ tasks[t].req.create = 2

\* C34: the connectivity flag goes from offline to online only in the step
\* of a probe that received an ok response; the steps of an add, a delete,
\* a push and a reload never set it to online.
C34_OnlineOnlyByProbe ==
    [][ /\ (~isOnline /\ isOnline') => \E t \in Slots : ProbeDone(t, "ok")
        /\ \A t \in Slots, o \in ProbeOutcomes \ {"ok"} :
              ProbeDone(t, o) => ~isOnline'
        /\ \A t \in Slots :
              (tasks[t].pc \notin {"idle", "probe"} /\ tasks'[t] # tasks[t])
                 => (isOnline' => isOnline)
      ]_vars

\* a retry pressed while offline has probed with an ok response: the flag
\* is online and the toast of the stale closure says Offline
C34_Witness ==
    /\ isOnline
    /\ toast = <<ToastOffline>>
    /\ Unsynced(expenses) # <<>>


\* C33: a record that a confirmed and completed delete has taken out of the
\* collection is not brought back by the update an add makes after a
\* successful push: with one add made so far and no delete in flight, a
\* record of the add's closure that is absent from the collection (from the
\* local store) before the step of the add is absent after it.
C33_AddKeepsDeletion ==
    [][\A t \in Slots :
          ( /\ tasks[t].kind = "add"
            /\ PostDone(t, "ok_true") \/ PostSetItemDone(t)
            /\ nextId = 1
            /\ dialog.state = "closed"
            /\ \A u \in Slots : tasks[u].kind # "delete" )
          => \A id \in Ids(tasks[t].E) :
                /\ ~HasId(expenses, id) => ~HasId(expenses', id)
                /\ ~HasId(Snapshot(store), id) => ~HasId(Snapshot(store'), id)
       ]_vars


Count(s, c) == Cardinality({k \in 1..Len(s) : s[k] = c})

\* local@domain.tld without whitespace: one "@" that is not the first
\* character, and after it a "." with at least one character on each side
EmailForm(s) ==
    /\ \A k \in 1..Len(s) : s[k] \notin WhiteSpace
    /\ Count(s, "@") = 1
    /\ LET at == CHOOSE k \in 1..Len(s) : s[k] = "@"
       IN  /\ at > 1
           /\ \E j \in (at + 2)..(Len(s) - 1) : s[j] = "."

Filled(s) == \E k \in 1..Len(s) : s[k] \notin WhiteSpace

\* C35: the logged-in-user key is written, and the screen becomes Home, only
\* by the Login call whose request was answered ok with status=true, and
\* Home is shown only with the key already holding that user; empty fields,
\* a malformed email, a non-ok response, status=false and a network
\* exception leave the key and the screen as they were.
C35_LoginOnlyOnSuccess ==
    [][ /\ (keys' # keys \/ (route'.name = "Home" /\ route.name # "Home")) =>
              \E t \in Slots :
                 /\ tasks[t].kind = "Login" /\ tasks[t].pc = "setItem"
                 /\ keys' = [keys EXCEPT ![LoggedUserKey] =
                                 LoggedBlob(tasks[t].logUser)]
                 /\ route' = HomeRoute(tasks[t].logUser)
        /\ \A t \in Slots :
              /\ (tasks'[t].pc = "setItem" /\ tasks[t].pc # "setItem") =>
                    \E u \in Users : LoginResponse(t, "ok_true", u)
              /\ \A o \in AuthOutcomes \ {"ok_true"}, u \in Users :
                    LoginResponse(t, o, u) =>
                       /\ tasks'[t].pc = "idle"
                       /\ keys' = keys /\ route' = route
                       /\ toast' # <<>>
              /\ \A f \in LoginInputs :
                    (handleLogin(t, f[1], f[2])
                       /\ ~(Filled(f[1]) /\ Filled(f[2]) /\ EmailForm(f[1])))
                    => /\ tasks' = tasks
                       /\ keys' = keys /\ route' = route
                       /\ toast' # <<>>
      ]_vars

\* a login has succeeded: Home is shown for the user the key holds
C35_Witness ==
    /\ route.name = "Home"
    /\ keys[LoggedUserKey] = LoggedBlob(route.user)

\* C36: on each of the two screens isLoading is true exactly while a call
\* of that screen is under way, and at no time are two Login requests or
\* two Register requests in flight.
C36_OneRequestInFlight ==
    /\ \A s \in AuthScreens :
          isLoading[s] <=>
             \E t \in Slots : /\ tasks[t].kind = s /\ tasks[t].O
                              /\ tasks[t].pc \in {"request", "setItem"}
    /\ \A s \in AuthScreens :
          Cardinality({t \in Slots : /\ tasks[t].kind = s
                                      /\ tasks[t].pc = "request"}) <= 1

\* C37: handleRegistration issues the Register request exactly when the
\* four fields are filled, the trimmed name has at least 2 characters, the
\* email has the form local@domain.tld and the two passwords are equal;
\* otherwise it shows an error, starts nothing and leaves isLoading false.
C37_RegisterOnlyIfValid ==
    [][\A t \in Slots, f \in RegistrationInputs :
          handleRegistration(t, f[1], f[2], f[3], f[4]) =>
             IF /\ Filled(f[1]) /\ Filled(f[2]) /\ Filled(f[3]) /\ Filled(f[4])
                /\ Len(Trim(f[1])) >= 2
                /\ EmailForm(f[2])
                /\ f[3] = f[4]
             THEN /\ tasks'[t].kind = "Registration"
                  /\ tasks'[t].pc = "request"
                  /\ isLoading'["Registration"]
             ELSE /\ tasks' = tasks
                  /\ toast' # <<>>
                  /\ ~isLoading'["Registration"]
      ]_vars

\* a Register request is in flight
C37_Witness ==
    \E t \in Slots :
        /\ tasks[t].kind = "Registration"
        /\ tasks[t].pc = "request"
        /\ isLoading["Registration"]

====
